---- MODULE Spec2Model ----
(***************************************************************************)
(* Model of nio/events/encrypted_events.py: the encrypted-event dispatcher *)
(* (RoomEncryptedEvent.parse_event), the Olm/Megolm event constructors,    *)
(* the room-key event constructors with their redacted `source`, and       *)
(* MegolmEvent.as_key_request.                                             *)
(*                                                                         *)
(* Python dicts are objects on a heap: a payload is the address of its     *)
(* top-level dict, and a nested dict is held by reference, so that         *)
(* aliasing between the caller's payload and an event's `source` is        *)
(* something the model can exhibit.                                        *)
(***************************************************************************)
EXTENDS Integers, Sequences, FiniteSets, TLC

VARIABLES
    heap,      \* the dict objects, by address
    payload,   \* address of the caller's payload
    orig,      \* the payload's value when the caller built it
    call,      \* the last call made and its arguments
    called,    \* constructors the last parse_event delegated to
    event,     \* the caller's event: result of the last constructor call
    message,   \* result of the last as_key_request
    writes     \* in-place changes made to event.source since construction

vars == <<heap, payload, orig, call, called, event, message, writes>>

\* Bound on the number of in-place changes the holder of an event makes to
\* its retained source.
MaxSourceWrites == 1

----------------------------------------------------------------------------
(* Values *)

Str(s) == [kind |-> "str", s |-> s]
Num(n) == [kind |-> "int", n |-> n]
Bool(b) == [kind |-> "bool", b |-> b]
Ref(a) == [kind |-> "ref", addr |-> a]
None == [kind |-> "none", s |-> "None"]

IsRef(v) == v.kind = "ref"

EmptyDict == [k \in {} |-> None]

\* d.get(k, default)
Get(d, k, default) == IF k \in DOMAIN d THEN d[k] ELSE default

\* d.pop(k) on a dict that holds k
Pop(d, k) == [j \in (DOMAIN d) \ {k} |-> d[j]]

\* d[k] = v
Put(d, k, v) == [j \in (DOMAIN d) \cup {k} |-> IF j = k THEN v ELSE d[j]]

\* x or y
Truthy(v) == ~(v.kind = "none" \/ (v.kind = "str" /\ v.s = ""))
Or(x, y) == IF Truthy(x) THEN x ELSE y

----------------------------------------------------------------------------
(* copy.deepcopy on a tree of dicts *)

RECURSIVE DeepCopyItems(_, _, _, _)
DeepCopyItems(h, d, ks, acc) ==
    IF ks = {} THEN [heap |-> Append(h, acc), addr |-> Len(h) + 1]
    ELSE LET k == CHOOSE x \in ks : TRUE
         IN  IF IsRef(d[k])
             THEN LET sub == DeepCopyItems(h, h[d[k].addr],
                                           DOMAIN h[d[k].addr], EmptyDict)
                  IN  DeepCopyItems(sub.heap, d, ks \ {k},
                                    Put(acc, k, Ref(sub.addr)))
             ELSE DeepCopyItems(h, d, ks \ {k}, Put(acc, k, d[k]))

deepcopy(h, a) == DeepCopyItems(h, h[a], DOMAIN h[a], EmptyDict)

\* The value of the dict at address a, with nested dicts in place of
\* references.
RECURSIVE DeepVal(_, _)
DeepVal(h, a) ==
    [k \in DOMAIN h[a] |->
        IF IsRef(h[a][k])
        THEN [kind |-> "dict", d |-> DeepVal(h, h[a][k].addr)]
        ELSE h[a][k]]

\* Addresses reachable from a.
RECURSIVE Reach(_, _)
Reach(h, a) ==
    {a} \cup UNION {Reach(h, h[a][k].addr) :
                       k \in {j \in DOMAIN h[a] : IsRef(h[a][j])}}

----------------------------------------------------------------------------
(* Wire constants *)

OLM == "m.olm.v1.curve25519-aes-sha2"
MEGOLM == "m.megolm.v1.aes-sha2"
UNKNOWN_ALG == "m.other.v1"

Algorithms == {OLM, MEGOLM, UNKNOWN_ALG}

----------------------------------------------------------------------------
(* Schemas (nio/schemas.py) and the verify wrapper (nio/events/misc.py) *)

HasDict(h, a, k) == k \in DOMAIN h[a] /\ IsRef(h[a][k])

ContentHas(h, a, ks) ==
    HasDict(h, a, "content") /\ ks \subseteq DOMAIN h[h[a]["content"].addr]

room_encrypted(h, a) ==
    "sender" \in DOMAIN h[a] /\ ContentHas(h, a, {"algorithm"})

room_olm_encrypted(h, a) ==
    /\ "sender" \in DOMAIN h[a]
    /\ ContentHas(h, a, {"algorithm", "ciphertext", "sender_key"})
    /\ h[h[a]["content"].addr]["algorithm"] = Str(OLM)

room_megolm_encrypted(h, a) ==
    /\ {"event_id", "sender", "origin_server_ts"} \subseteq DOMAIN h[a]
    /\ ContentHas(h, a, {"ciphertext", "sender_key", "session_id",
                         "device_id", "algorithm"})
    /\ h[h[a]["content"].addr]["algorithm"] = Str(MEGOLM)

room_key_event(h, a) ==
    /\ "keys" \in DOMAIN h[a]
    /\ ContentHas(h, a, {"room_id", "session_id", "algorithm", "session_key"})

forwarded_room_key_event(h, a) ==
    ContentHas(h, a, {"room_id", "session_id", "algorithm", "session_key"})

\* What a constructor yields for a payload its schema rejects.
ValidationError == [cls |-> "SchemaValidationError"]

----------------------------------------------------------------------------
(* Event classes *)

NoEvent == [cls |-> "unset"]
NoneResult == [cls |-> "None"]

\* attrs-generated MegolmEvent.__init__: decrypted and verified are
\* init=False attributes with default False.
MegolmEvent(event_id, sender, server_timestamp, sender_key, device_id, session_id, ciphertext, algorithm, room_id, transaction_id) ==
    [cls |-> "MegolmEvent",
     event_id |-> event_id,
     sender |-> sender,
     server_timestamp |-> server_timestamp,
     sender_key |-> sender_key,
     device_id |-> device_id,
     session_id |-> session_id,
     ciphertext |-> ciphertext,
     algorithm |-> algorithm,
     room_id |-> room_id,
     transaction_id |-> transaction_id,
     decrypted |-> FALSE,
     verified |-> FALSE]

OlmEvent(sender, sender_key, ciphertext, transaction_id) ==
    [cls |-> "OlmEvent",
     sender |-> sender,
     sender_key |-> sender_key,
     ciphertext |-> ciphertext,
     transaction_id |-> transaction_id]

RoomKeyEvent(cls, source, sender, sender_key, room_id, session_id, algorithm) ==
    [cls |-> cls,
     source |-> source,
     sender |-> sender,
     sender_key |-> sender_key,
     room_id |-> room_id,
     session_id |-> session_id,
     algorithm |-> algorithm]

\* Variant: the transaction id looked up at the top level of the payload.
TxId_toplevel(h, a) == Get(h[a], "transaction_id", None)

\* event_dict["unsigned"].get("transaction_id", None)
\*     if "unsigned" in event_dict else None
TxId(h, a) ==
    IF "unsigned" \in DOMAIN h[a]
    THEN Get(h[h[a]["unsigned"].addr], "transaction_id", None)
    ELSE None

OlmEvent_from_dict(h, a) ==
    IF ~room_olm_encrypted(h, a) THEN ValidationError
    ELSE LET content == h[h[a]["content"].addr]
             ciphertext == content["ciphertext"]
             sender_key == content["sender_key"]
             tx_id == TxId(h, a)
         IN  OlmEvent(h[a]["sender"], sender_key, ciphertext, tx_id)

\* Variant: the two flags taken from the payload.
MegolmEvent_from_dict_flags(h, a) ==
    IF ~room_megolm_encrypted(h, a) THEN ValidationError
    ELSE LET content == h[h[a]["content"].addr]
             e == MegolmEvent(h[a]["event_id"], h[a]["sender"],
                              h[a]["origin_server_ts"],
                              content["sender_key"], content["device_id"],
                              content["session_id"], content["ciphertext"],
                              content["algorithm"],
                              Get(h[a], "room_id", None), TxId(h, a))
         IN  [e EXCEPT !.decrypted = Get(h[a], "decrypted", Bool(FALSE)).b,
                       !.verified = Get(h[a], "verified", Bool(FALSE)).b]

MegolmEvent_from_dict(h, a) ==
    IF ~room_megolm_encrypted(h, a) THEN ValidationError
    ELSE LET content == h[h[a]["content"].addr]
             ciphertext == content["ciphertext"]
             sender_key == content["sender_key"]
             session_id == content["session_id"]
             device_id == content["device_id"]
             algorithm == content["algorithm"]
             room_id == Get(h[a], "room_id", None)
             tx_id == TxId(h, a)
         IN  MegolmEvent(h[a]["event_id"], h[a]["sender"],
                         h[a]["origin_server_ts"], sender_key, device_id,
                         session_id, ciphertext, algorithm, room_id, tx_id)

\* Variant: copy.copy in place of deepcopy, so the copy shares the nested
\* dicts with the payload.
RoomKeyEvent_from_dict_shallow(h, a, sender, sender_key) ==
    IF ~room_key_event(h, a) THEN [heap |-> h, event |-> ValidationError]
    ELSE LET e == Len(h) + 1
             h1 == [Append(h, h[a]) EXCEPT ![e] = Pop(@, "keys")]
             c == h1[e]["content"].addr
             h2 == [h1 EXCEPT ![c] = Pop(@, "session_key")]
             content == h2[c]
         IN  [heap |-> h2,
              event |-> RoomKeyEvent("RoomKeyEvent", e, sender, sender_key,
                                     content["room_id"],
                                     content["session_id"],
                                     content["algorithm"])]

\* The two room-key constructors return the heap as well: they allocate the
\* copy and change it in place.
RoomKeyEvent_from_dict(h, a, sender, sender_key) ==
    IF ~room_key_event(h, a) THEN [heap |-> h, event |-> ValidationError]
    ELSE LET cp == deepcopy(h, a)
             e == cp.addr
             h1 == [cp.heap EXCEPT ![e] = Pop(@, "keys")]
             c == h1[e]["content"].addr
             h2 == [h1 EXCEPT ![c] = Pop(@, "session_key")]
             content == h2[c]
         IN  [heap |-> h2,
              event |-> RoomKeyEvent("RoomKeyEvent", e, sender, sender_key,
                                     content["room_id"],
                                     content["session_id"],
                                     content["algorithm"])]

\* Variant: sender and sender_key read from the payload.
ForwardedRoomKeyEvent_from_dict_payload_sender(h, a, sender, sender_key) ==
    IF ~forwarded_room_key_event(h, a)
    THEN [heap |-> h, event |-> ValidationError]
    ELSE LET cp == deepcopy(h, a)
             e == cp.addr
             c == cp.heap[e]["content"].addr
             h1 == [cp.heap EXCEPT ![c] = Pop(@, "session_key")]
             content == h1[c]
         IN  [heap |-> h1,
              event |-> RoomKeyEvent("ForwardedRoomKeyEvent", e,
                                     h1[e]["sender"],
                                     content["sender_key"],
                                     content["room_id"],
                                     content["session_id"],
                                     content["algorithm"])]

ForwardedRoomKeyEvent_from_dict(h, a, sender, sender_key) ==
    IF ~forwarded_room_key_event(h, a)
    THEN [heap |-> h, event |-> ValidationError]
    ELSE LET cp == deepcopy(h, a)
             e == cp.addr
             c == cp.heap[e]["content"].addr
             h1 == [cp.heap EXCEPT ![c] = Pop(@, "session_key")]
             content == h1[c]
         IN  [heap |-> h1,
              event |-> RoomKeyEvent("ForwardedRoomKeyEvent", e, sender,
                                     sender_key,
                                     content["room_id"],
                                     content["session_id"],
                                     content["algorithm"])]

\* Variant: a final else branch that treats every other algorithm as Megolm.
parse_event_default_megolm(h, a) ==
    IF ~room_encrypted(h, a)
    THEN [event |-> ValidationError, called |-> <<>>]
    ELSE LET content == h[h[a]["content"].addr]
         IN  IF content["algorithm"] = Str(OLM)
             THEN [event |-> OlmEvent_from_dict(h, a),
                   called |-> <<"OlmEvent.from_dict">>]
             ELSE [event |-> MegolmEvent_from_dict(h, a),
                   called |-> <<"MegolmEvent.from_dict">>]

parse_event(h, a) ==
    IF ~room_encrypted(h, a)
    THEN [event |-> ValidationError, called |-> <<>>]
    ELSE LET content == h[h[a]["content"].addr]
         IN  IF content["algorithm"] = Str(OLM)
             THEN [event |-> OlmEvent_from_dict(h, a),
                   called |-> <<"OlmEvent.from_dict">>]
             ELSE IF content["algorithm"] = Str(MEGOLM)
             THEN [event |-> MegolmEvent_from_dict(h, a),
                   called |-> <<"MegolmEvent.from_dict">>]
             ELSE [event |-> NoneResult, called |-> <<>>]

\* nio.messages.ToDeviceMessage
ToDeviceMessage(type, recipient, recipient_device, content) ==
    [type |-> type,
     recipient |-> recipient,
     recipient_device |-> recipient_device,
     content |-> content]

\* Variant: the body's sender_key filled in from the event's sender.
as_key_request_sender(self, user_id, requesting_device_id, request_id) ==
    LET content ==
            [action |-> Str("request"),
             body |-> [algorithm |-> self.algorithm,
                       session_id |-> self.session_id,
                       room_id |-> self.room_id,
                       sender_key |-> self.sender],
             request_id |-> Or(request_id, self.session_id),
             requesting_device_id |-> requesting_device_id]
    IN  ToDeviceMessage("m.room_key_request", user_id, "*", content)

as_key_request(self, user_id, requesting_device_id, request_id) ==
    LET content ==
            [action |-> Str("request"),
             body |-> [algorithm |-> self.algorithm,
                       session_id |-> self.session_id,
                       room_id |-> self.room_id,
                       sender_key |-> self.sender_key],
             request_id |-> Or(request_id, self.session_id),
             requesting_device_id |-> requesting_device_id]
    IN  ToDeviceMessage("m.room_key_request", user_id, "*", content)

----------------------------------------------------------------------------
(* Payloads the caller hands in *)

WithIf(d, cond, k, v) == IF cond THEN Put(d, k, v) ELSE d

UnsignedShapes == {"absent", "no_txid", "txid"}

PayloadContent(alg, dev, sk) ==
    WithIf(WithIf([algorithm |-> Str(alg),
                   ciphertext |-> Str("CT"),
                   sender_key |-> Str("PSK"),
                   session_id |-> Str("S1"),
                   room_id |-> Str("!c:x")],
                  dev, "device_id", Str("DEV")),
           sk, "session_key", Str("SECRET"))

PayloadUnsigned(uns) ==
    IF uns = "txid" THEN [age |-> Num(5), transaction_id |-> Str("tx1")]
    ELSE [age |-> Num(5)]

\* The heap holding one payload: the top-level dict at address 1, its
\* content at 2, then the unsigned and keys blocks when present.
PayloadHeap(alg, room, uns, keys, flags, dev, sk) ==
    LET hasUns == uns # "absent"
        unsAddr == 3
        keysAddr == IF hasUns THEN 4 ELSE 3
        top0 == [sender |-> Str("@p:x"),
                 event_id |-> Str("$e"),
                 origin_server_ts |-> Num(1),
                 content |-> Ref(2)]
        top1 == WithIf(top0, room, "room_id", Str("!t:x"))
        top2 == WithIf(top1, hasUns, "unsigned", Ref(unsAddr))
        top3 == WithIf(top2, keys, "keys", Ref(keysAddr))
        top4 == WithIf(WithIf(top3, flags, "decrypted", Bool(TRUE)),
                       flags, "verified", Bool(TRUE))
    IN  <<top4, PayloadContent(alg, dev, sk)>>
        \o (IF hasUns THEN <<PayloadUnsigned(uns)>> ELSE <<>>)
        \o (IF keys THEN <<[ed25519 |-> Str("ED")]>> ELSE <<>>)

Payloads ==
    {PayloadHeap(alg, room, uns, keys, flags, dev, sk) :
        alg \in Algorithms, room \in BOOLEAN, uns \in UnsignedShapes,
        keys \in BOOLEAN, flags \in BOOLEAN, dev \in BOOLEAN,
        sk \in BOOLEAN}

\* Caller-supplied arguments
Senders == {Str("@p:x"), Str("@a:x")}
SenderKeys == {Str("PSK"), Str("ASK")}
UserIds == {Str("@u:x")}
DeviceIds == {Str("MYDEV")}
RequestIds == {None, Str(""), Str("R1")}

----------------------------------------------------------------------------
(* The caller *)

NoCall == [op |-> "none"]
NoMessage == [type |-> "unset"]

SetMax(S) == CHOOSE x \in S : \A y \in S : y <= x

\* The caller's own objects; the event held before is released when the
\* caller's variable is assigned again.
Release(h) == SubSeq(h, 1, SetMax(Reach(h, payload)))

Init ==
    /\ heap \in Payloads
    /\ payload = 1
    /\ orig = DeepVal(heap, 1)
    /\ call = NoCall
    /\ called = <<>>
    /\ event = NoEvent
    /\ message = NoMessage
    /\ writes = 0

ParseEvent ==
    LET r == parse_event(Release(heap), payload)
    IN  /\ heap' = Release(heap)
        /\ event' = r.event
        /\ called' = r.called
        /\ call' = [op |-> "parse_event"]
        /\ writes' = 0
        /\ UNCHANGED <<payload, orig, message>>

OlmFromDict ==
    /\ heap' = Release(heap)
    /\ event' = OlmEvent_from_dict(Release(heap), payload)
    /\ call' = [op |-> "OlmEvent.from_dict"]
    /\ writes' = 0
    /\ UNCHANGED <<payload, orig, called, message>>

MegolmFromDict ==
    /\ heap' = Release(heap)
    /\ event' = MegolmEvent_from_dict(Release(heap), payload)
    /\ call' = [op |-> "MegolmEvent.from_dict"]
    /\ writes' = 0
    /\ UNCHANGED <<payload, orig, called, message>>

RoomKeyFromDict ==
    \E sender \in Senders, sender_key \in SenderKeys :
        LET r == RoomKeyEvent_from_dict(Release(heap), payload,
                                        sender, sender_key)
        IN  /\ heap' = r.heap
            /\ event' = r.event
            /\ call' = [op |-> "RoomKeyEvent.from_dict",
                        sender |-> sender, sender_key |-> sender_key]
            /\ writes' = 0
            /\ UNCHANGED <<payload, orig, called, message>>

ForwardedRoomKeyFromDict ==
    \E sender \in Senders, sender_key \in SenderKeys :
        LET r == ForwardedRoomKeyEvent_from_dict(Release(heap), payload,
                                                 sender, sender_key)
        IN  /\ heap' = r.heap
            /\ event' = r.event
            /\ call' = [op |-> "ForwardedRoomKeyEvent.from_dict",
                        sender |-> sender, sender_key |-> sender_key]
            /\ writes' = 0
            /\ UNCHANGED <<payload, orig, called, message>>

AsKeyRequest ==
    /\ event.cls = "MegolmEvent"
    /\ \E user_id \in UserIds, requesting_device_id \in DeviceIds,
          request_id \in RequestIds :
          /\ message' = as_key_request(event, user_id,
                                       requesting_device_id, request_id)
          /\ call' = [op |-> "as_key_request",
                      user_id |-> user_id,
                      requesting_device_id |-> requesting_device_id,
                      request_id |-> request_id]
    /\ UNCHANGED <<heap, payload, orig, called, event, writes>>

\* The holder of a room-key event changes a dict of the retained source in
\* place: it sets an entry or empties the dict.
WriteSource ==
    /\ event.cls \in {"RoomKeyEvent", "ForwardedRoomKeyEvent"}
    /\ writes < MaxSourceWrites
    /\ \E a \in Reach(heap, event.source) :
          \/ heap' = [heap EXCEPT ![a] = Put(@, "note", Str("changed"))]
          \/ heap' = [heap EXCEPT ![a] = EmptyDict]
    /\ writes' = writes + 1
    /\ UNCHANGED <<payload, orig, call, called, event, message>>

Next ==
    \/ ParseEvent
    \/ OlmFromDict
    \/ MegolmFromDict
    \/ RoomKeyFromDict
    \/ ForwardedRoomKeyFromDict
    \/ AsKeyRequest
    \/ WriteSource

Spec == Init /\ [][Next]_vars

----------------------------------------------------------------------------
(* Properties *)

\* C1: parse_event routes on content.algorithm alone: the Megolm tag goes
\* to MegolmEvent.from_dict only, the Olm tag to OlmEvent.from_dict only,
\* and any other tag yields None with neither constructor invoked.
C1_DispatchOnAlgorithm ==
    call.op = "parse_event" =>
        LET alg == heap[heap[payload]["content"].addr]["algorithm"]
        IN  /\ alg = Str(MEGOLM) => called = <<"MegolmEvent.from_dict">>
            /\ alg = Str(OLM) => called = <<"OlmEvent.from_dict">>
            /\ alg \notin {Str(MEGOLM), Str(OLM)} =>
                   called = <<>> /\ event = NoneResult

C1_Witness ==
    /\ call.op = "parse_event"
    /\ heap[heap[payload]["content"].addr]["algorithm"] = Str(UNKNOWN_ALG)
    /\ event = NoneResult

\* C2: the source retained by a RoomKeyEvent or a ForwardedRoomKeyEvent
\* built from a payload that held a top-level keys and a content.session_key
\* has neither a top-level keys nor a session_key under content.
C2_SourceRedacted ==
    ( /\ event.cls \in {"RoomKeyEvent", "ForwardedRoomKeyEvent"}
      /\ writes = 0
      /\ "keys" \in DOMAIN orig
      /\ "session_key" \in DOMAIN orig["content"].d )
    => /\ "keys" \notin DOMAIN heap[event.source]
       /\ "session_key" \notin
              DOMAIN heap[heap[event.source]["content"].addr]

\* C3: constructing a RoomKeyEvent or a ForwardedRoomKeyEvent never changes
\* the caller's payload at any nesting level, and later changes to the
\* retained source do not show in the caller's payload.
C3_PayloadNotMutated == DeepVal(heap, payload) = orig

C3_Witness ==
    /\ event.cls = "RoomKeyEvent"
    /\ writes >= 1
    /\ "keys" \in DOMAIN heap[payload]
    /\ "session_key" \in DOMAIN heap[heap[payload]["content"].addr]
    /\ DeepVal(heap, event.source) # DeepVal(heap, payload)

\* C4: a MegolmEvent built from a payload without a top-level room_id has
\* room_id equal to the empty string; with a top-level room_id, that value.
C4_RoomIdDefault ==
    event.cls = "MegolmEvent" =>
        event.room_id = Get(heap[payload], "room_id", Str(""))

\* C5: content.request_id of a key request equals the request_id argument
\* when one is provided (any string) and the event's session_id when none
\* is.
C5_RequestId ==
    call.op = "as_key_request" =>
        message.content.request_id =
            IF call.request_id # None THEN call.request_id
            ELSE event.session_id

\* C6: as_key_request returns a to-device message of type
\* m.room_key_request for user_id with device selector "*", action
\* "request", the given requesting_device_id and a body of exactly
\* algorithm, session_id, room_id and sender_key taken from the event; the
\* call leaves the event unchanged.
C6_KeyRequestMessage ==
    /\ [](call.op = "as_key_request" =>
            /\ message.type = "m.room_key_request"
            /\ message.recipient = call.user_id
            /\ message.recipient_device = "*"
            /\ DOMAIN message.content =
                   {"action", "body", "request_id", "requesting_device_id"}
            /\ message.content.action = Str("request")
            /\ message.content.requesting_device_id =
                   call.requesting_device_id
            /\ message.content.body =
                   [algorithm |-> event.algorithm,
                    session_id |-> event.session_id,
                    room_id |-> event.room_id,
                    sender_key |-> event.sender_key])
    /\ [][call'.op = "as_key_request" => event' = event]_vars

C6_Witness ==
    /\ call.op = "as_key_request"
    /\ event.cls = "MegolmEvent"
    /\ message.content.body.session_id = Str("S1")
    /\ message.content.body.sender_key = Str("PSK")

\* C7: sender and sender_key of a RoomKeyEvent or ForwardedRoomKeyEvent are
\* the caller-supplied arguments, whatever the payload's own sender and
\* content.sender_key are.
C7_SenderFromCaller ==
    event.cls \in {"RoomKeyEvent", "ForwardedRoomKeyEvent"} =>
        /\ event.sender = call.sender
        /\ event.sender_key = call.sender_key

C7_Witness ==
    /\ event.cls = "ForwardedRoomKeyEvent"
    /\ event.sender # heap[payload]["sender"]
    /\ event.sender_key # heap[heap[payload]["content"].addr]["sender_key"]

\* C8: every MegolmEvent has decrypted = false and verified = false, right
\* after construction from any payload and after any as_key_request calls.
C8_FlagsFalse ==
    event.cls = "MegolmEvent" =>
        event.decrypted = FALSE /\ event.verified = FALSE

C8_Witness ==
    /\ event.cls = "MegolmEvent"
    /\ call.op = "as_key_request"
    /\ Get(heap[payload], "decrypted", Bool(FALSE)) = Bool(TRUE)
    /\ Get(heap[payload], "verified", Bool(FALSE)) = Bool(TRUE)

C10_SourceIsPayloadMinusKeys ==
    ( event.cls \in {"RoomKeyEvent", "ForwardedRoomKeyEvent"} /\ writes = 0 )
    => LET src == DeepVal(heap, event.source)
           redacted == [Pop(orig, "keys") EXCEPT
                           !["content"] =
                               [kind |-> "dict",
                                d |-> Pop(orig["content"].d, "session_key")]]
       IN  /\ src = redacted
           /\ event.room_id = orig["content"].d["room_id"]
           /\ event.session_id = orig["content"].d["session_id"]
           /\ event.algorithm = orig["content"].d["algorithm"]
           /\ event.room_id = src["content"].d["room_id"]
           /\ event.session_id = src["content"].d["session_id"]
           /\ event.algorithm = src["content"].d["algorithm"]

====
